---- MODULE Spec2Model ----
(***************************************************************************)
(* A model of lib/cleaver.js: the Cleaver object, its document slicer, its *)
(* agenda synthesis, its template resolution and the promise pipeline of   *)
(* run().  Text is a sequence of one-character strings, so that the        *)
(* regular expressions of the source are computed character by character.  *)
(***************************************************************************)
EXTENDS Naturals, Sequences, FiniteSets, TLC

VARIABLES
  file,         \* this.file
  document,     \* the text helper.load(this.external) yields for this.file
  rawSlices,    \* this.rawSlices
  metadata,     \* this.metadata
  templates,    \* this.templates: the keys set, each naming its file
  tplLoaded,    \* this.templates.loaded
  resLoaded,    \* this.resources.loaded
  extLoaded,    \* this.external.loaded
  loads,        \* every load of helper: "none", "pending", "ok", "failed"
  slides,       \* this.slides
  pcParse,      \* where the promise chain of _parseDocument stands
  pcRun,        \* where the promise chain of run stands
  output,       \* what _renderSlideshow computed, and the calls of helper.save
  failure,      \* the reason the promise chain of run rejected with, if any
  reported      \* the error the run reported through .fail/.done, if any

vars == <<file, document, rawSlices, metadata, templates, tplLoaded, resLoaded,
          extLoaded, loads, slides, pcParse, pcRun, output, failure, reported>>

(***************************************************************************)
(* Bounds of the model.                                                    *)
(***************************************************************************)
\* the longest document the slicer is applied to, in characters
MaxDocLen == 5
\* the most content sections of an agenda scan
MaxSections == 4
\* the most content sections of a document the pipeline runs on
MaxContent == 2

(***************************************************************************)
(* Characters and text.                                                    *)
(***************************************************************************)
LF == "\n"
CR == "\r"
SP == " "
DASH == "-"
HASH == "#"

\* what String.prototype.trim and the class \s take for whitespace
IsSpace(c) == c \in {SP, LF, CR, "\t"}

\* s.substring(from - 1, to): the characters from..to, 1-based and inclusive
Sub(s, from, to) == IF from > to THEN <<>> ELSE SubSeq(s, from, to)

Min(S) == CHOOSE m \in S : \A n \in S : m <= n
Max(S) == CHOOSE m \in S : \A n \in S : n <= m

\* String.prototype.trim: from the first to the last character that is not
\* whitespace
Trim(s) ==
  LET keep == {i \in 1..Len(s) : ~IsSpace(s[i])}
  IN  IF keep = {} THEN <<>> ELSE Sub(s, Min(keep), Max(keep))

(***************************************************************************)
(* _slice: document.split(/\r?\n--\r?\n/), each cut trimmed.               *)
(***************************************************************************)
At(s, i) == IF i \in 1..Len(s) THEN s[i] ELSE "eof"

\* the position of the last character of a match of /\r?\n--\r?\n/ that
\* starts at position i of s, or 0 when the expression does not match there
DelimiterEndAt(s, i) ==
  LET j == IF At(s, i) = CR THEN i + 1 ELSE i
      k == j + 3
  IN  IF At(s, j) = LF /\ At(s, j + 1) = DASH /\ At(s, j + 2) = DASH
      THEN IF At(s, k) = CR /\ At(s, k + 1) = LF THEN k + 1
           ELSE IF At(s, k) = LF THEN k
           ELSE 0
      ELSE 0

\* the positions of s from p on where the expression matches
MatchesFrom(s, p) == {i \in p..Len(s) : DelimiterEndAt(s, i) # 0}

\* String.prototype.split with the delimiter expression: the leftmost match
\* from p on cuts the text, and the search goes on after the match
RECURSIVE SplitFrom(_, _)
SplitFrom(s, p) ==
  IF MatchesFrom(s, p) = {}
  THEN <<Sub(s, p, Len(s))>>
  ELSE LET q == Min(MatchesFrom(s, p))
       IN  <<Sub(s, p, q - 1)>> \o SplitFrom(s, DelimiterEndAt(s, q) + 1)

_slice(doc) ==
  LET cuts == SplitFrom(doc, 1)
  IN  [i \in 1..Len(cuts) |-> Trim(cuts[i])]

(***************************************************************************)
(* _renderAgendaSlide: the titles of the agenda.                           *)
(***************************************************************************)
\* slices[i].split(/(\n|\r)+/)[0]: the text before the first line break
FirstLine(s) ==
  LET breaks == {i \in 1..Len(s) : s[i] \in {LF, CR}}
  IN  IF breaks = {} THEN s ELSE Sub(s, 1, Min(breaks) - 1)

\* the number of # at the head of s: what #{3,} takes, when there are 3
LeadingHashes(s) ==
  LET others == {i \in 1..Len(s) : s[i] # HASH}
  IN  IF others = {} THEN Len(s) ELSE Min(others) - 1

\* the number of whitespace characters at the head of s: what \s+ takes
LeadingSpaces(s) ==
  LET others == {i \in 1..Len(s) : ~IsSpace(s[i])}
  IN  IF others = {} THEN Len(s) ELSE Min(others) - 1

NoMatch == <<"no match">>

\* /^(#{3,})\s+(.+)$/.exec(line): group 2 of the match, or NoMatch.  #{3,}
\* takes every leading #, \s+ takes the whitespace after them and gives its
\* last character back to (.+) when nothing else is left for it.
HeadingTitle(line) ==
  LET h    == LeadingHashes(line)
      rest == Sub(line, h + 1, Len(line))
      w    == LeadingSpaces(rest)
      text == Sub(rest, w + 1, Len(rest))
  IN  IF h < 3 \/ w = 0 THEN NoMatch
      ELSE IF text # <<>> THEN text
      ELSE IF w >= 2 THEN <<rest[w]>>
      ELSE NoMatch

\* the loop of _renderAgendaSlide from slice i on: titles and lastTitle are
\* the loop's variables, lastTitle starting undefined
RECURSIVE AgendaLoop(_, _, _, _)
AgendaLoop(slices, i, titles, lastTitle) ==
  IF i > Len(slices) THEN titles
  ELSE LET matches == HeadingTitle(FirstLine(slices[i]))
       IN  IF matches = NoMatch
           THEN AgendaLoop(slices, i + 1, titles, lastTitle)
           ELSE IF lastTitle # matches
           THEN AgendaLoop(slices, i + 1, Append(titles, matches), matches)
           ELSE AgendaLoop(slices, i + 1, titles, lastTitle)

\* the scan with every heading pushed, equal to the last title or not
RECURSIVE AgendaLoopKeepingRepeats(_, _, _)
AgendaLoopKeepingRepeats(slices, i, titles) ==
  IF i > Len(slices) THEN titles
  ELSE LET matches == HeadingTitle(FirstLine(slices[i]))
       IN  IF matches = NoMatch
           THEN AgendaLoopKeepingRepeats(slices, i + 1, titles)
           ELSE AgendaLoopKeepingRepeats(slices, i + 1, Append(titles, matches))

AgendaTitlesKeepingRepeats(slices) == AgendaLoopKeepingRepeats(slices, 2, <<>>)

\* the scan with a heading pushed only when no title pushed so far equals it
RECURSIVE AgendaLoopUnique(_, _, _)
AgendaLoopUnique(slices, i, titles) ==
  IF i > Len(slices) THEN titles
  ELSE LET matches == HeadingTitle(FirstLine(slices[i]))
       IN  IF matches = NoMatch \/ \E k \in 1..Len(titles) : titles[k] = matches
           THEN AgendaLoopUnique(slices, i + 1, titles)
           ELSE AgendaLoopUnique(slices, i + 1, Append(titles, matches))

AgendaTitlesUnique(slices) == AgendaLoopUnique(slices, 2, <<>>)

\* the list _renderAgendaSlide hands to the agenda template
AgendaTitles(slices) == AgendaLoop(slices, 2, <<>>, <<"undefined">>)

(***************************************************************************)
(* Values of JavaScript, as far as the code tells them apart.              *)
(***************************************************************************)
Undefined == "undefined"
JsNull == "null"
JsTrue == "true"
JsFalse == "false"
JsZero == "0 (number)"
JsEmptyString == "'' (string)"

\* what an if, an || or a ! of JavaScript takes for true
Truthy(v) == v \notin {Undefined, JsNull, JsFalse, JsZero, JsEmptyString}

\* a || b
JsOr(a, b) == IF Truthy(a) THEN a ELSE b

\* a === undefined, as a value of JavaScript
IsUndefined(a) == IF a = Undefined THEN JsTrue ELSE JsFalse

(***************************************************************************)
(* What yaml.safeLoad yields for section 0.  this.metadata is undefined    *)
(* until then; an empty section yields no value at all, a plain scalar     *)
(* yields a string, whose properties are all undefined.                    *)
(***************************************************************************)
MetaKeys == {"agenda", "author", "template", "style", "controls", "title",
             "encoding", "output"}

NoKeys == [k \in MetaKeys |-> Undefined]

MetaUnset == [kind |-> "unset", keys |-> NoKeys]
MetaNothing == [kind |-> "nothing", keys |-> NoKeys]
MetaScalar == [kind |-> "scalar", keys |-> NoKeys]

AgendaValues == {Undefined, JsFalse, JsTrue}
AuthorValues == {Undefined, "Jane"}
TemplateValues == {Undefined, "my.mustache"}
StyleValues == {Undefined, "my.css"}
ControlsValues == {Undefined, JsTrue, JsFalse, JsNull, JsZero, JsEmptyString}
TitleValues == {Undefined, "Talk"}
EncodingValues == {Undefined, "latin1"}
OutputValues == {Undefined, "out.html"}

Mapping(ag, au, te, st, co, ti, en, ou) ==
  [kind |-> "mapping",
   keys |-> [agenda |-> ag, author |-> au, template |-> te, style |-> st,
             controls |-> co, title |-> ti, encoding |-> en, output |-> ou]]

\* the mappings the pipeline is run on: every combination of the keys that
\* decide which loads are issued, with and without title and encoding
PipelineMappings ==
  {Mapping(ag, au, te, st, Undefined, ti, en, Undefined) :
     ag \in AgendaValues, au \in AuthorValues, te \in TemplateValues,
     st \in StyleValues, ti \in TitleValues, en \in EncodingValues}

\* the mappings composition alone is applied to: every combination of the
\* keys _renderSlideshow reads
ComposeMappings ==
  {Mapping(Undefined, Undefined, Undefined, Undefined, co, ti, en, ou) :
     co \in ControlsValues, ti \in TitleValues, en \in EncodingValues,
     ou \in OutputValues}

\* the values yaml.safeLoad can return for the text of section 0
YamlValues(text) ==
  IF text = <<>> THEN {MetaNothing} ELSE PipelineMappings \cup {MetaScalar}

\* reading a property of this.metadata throws a TypeError
PropertyReadThrows(m) == m.kind \in {"unset", "nothing"}

\* this.metadata.<key>
Prop(m, key) == m.keys[key]

(***************************************************************************)
(* The maps of the Cleaver object and the loads of helper.                 *)
(***************************************************************************)
\* the files this.templates and this.resources name
TemplateFile(key) ==
  CASE key = "layout" -> "layout.mustache"
    [] key = "agenda" -> "agenda.mustache"
    [] key = "author" -> "author.mustache"
    [] key = "slides" -> "default.mustache"

ResourceFile(key) ==
  CASE key = "style" -> "default.css"
    [] key = "navigation" -> "navigation.js"

TemplateKeys == {"layout", "agenda", "author", "slides"}
ResourceKeys == {"style", "navigation"}

DocumentLoad == <<"external", "document">>
OverrideLoad == <<"single", "template">>
StyleLoad == <<"single", "style">>
TemplateLoad(key) == <<"templates", key>>
ResourceLoad(key) == <<"resources", key>>

LoadIds ==
  {DocumentLoad, OverrideLoad, StyleLoad}
    \cup {TemplateLoad(k) : k \in TemplateKeys}
    \cup {ResourceLoad(k) : k \in ResourceKeys}

\* the loads the promise of _parseDocument depends on
ParseLoads == LoadIds \ {ResourceLoad(k) : k \in ResourceKeys}

\* a map's .loaded: absent until helper.load creates it, then one slot a key
NoLoaded == [exists |-> FALSE, slots |-> {}]
EmptyLoaded == [exists |-> TRUE, slots |-> {}]
Has(l, k) == \E p \in l.slots : p[1] = k
Get(l, k) == IF Has(l, k) THEN (CHOOSE p \in l.slots : p[1] = k)[2] ELSE Undefined
Put(l, k, v) == [l EXCEPT !.slots = {p \in @ : p[1] # k} \cup {<<k, v>>}]

\* the first rejection decides what a Q.all, and the chain after it, rejects with
FirstFailure(now, reason) == IF now = "none" THEN reason ELSE now

(***************************************************************************)
(* The documents and the file of a run.                                    *)
(***************************************************************************)
DelimiterLine == <<LF, DASH, DASH, LF>>
MetadataText == <<"t">>
HeadingA == <<HASH, HASH, HASH, SP, "A">>
HeadingB == <<HASH, HASH, HASH, SP, "B">>
Paragraph == <<"p">>

ContentText(i) == IF i % 2 = 1 THEN HeadingA ELSE HeadingB

RECURSIVE JoinSections(_)
JoinSections(sections) ==
  IF Len(sections) = 1 THEN sections[1]
  ELSE sections[1] \o DelimiterLine \o JoinSections(Tail(sections))

\* a metadata section and n content sections
DocumentOf(n) == JoinSections(<<MetadataText>> \o [i \in 1..n |-> ContentText(i)])

DocPool == {<<>>} \cup {DocumentOf(n) : n \in 0..MaxContent}

TalkMd == <<"t", "a", "l", "k", ".", "m", "d">>
TalkTxt == <<"t", "a", "l", "k", ".", "t", "x", "t">>
TalkNoExtension == <<"t", "a", "l", "k">>
DirTalkMd == <<"d", "/", "t", "a", "l", "k", ".", "m", "d">>
TalkV2Md == <<"t", "a", "l", "k", ".", "v", "2", ".", "m", "d">>

\* the files composition is applied to
FilePool == {TalkMd, TalkTxt, TalkNoExtension, DirTalkMd, TalkV2Md}
DotMd == <<".", "m", "d">>
CleaverSuffix == <<"-", "c", "l", "e", "a", "v", "e", "r", ".", "h", "t", "m", "l">>

(***************************************************************************)
(* _renderSlideshow: what it computes from the object.                     *)
(***************************************************************************)
EndsWith(s, e) == Len(e) <= Len(s) /\ Sub(s, Len(s) - Len(e) + 1, Len(s)) = e

\* path.basename(f, ext)
Basename(f, ext) ==
  LET slashes == {i \in 1..Len(f) : f[i] = "/"}
      from    == IF slashes = {} THEN 1
                 ELSE (CHOOSE m \in slashes : \A n \in slashes : n <= m) + 1
      base    == Sub(f, from, Len(f))
  IN  IF EndsWith(base, ext) THEN Sub(base, 1, Len(base) - Len(ext)) ELSE base

\* this.metadata.controls || (this.metadata.controls === undefined)
PutControls(m) == JsOr(Prop(m, "controls"), IsUndefined(Prop(m, "controls")))

\* this.metadata.title || 'Untitled'
Title(m) == JsOr(Prop(m, "title"), "Untitled")

\* this.metadata.encoding || 'utf-8'
Encoding(m) == JsOr(Prop(m, "encoding"), "utf-8")

\* this.metadata.output || path.basename(this.file, '.md') + '-cleaver.html':
\* the path in metadata as one string, the derived one character by character
OutputLocation(m, f) ==
  IF Truthy(Prop(m, "output")) THEN <<Prop(m, "output")>>
  ELSE Basename(f, DotMd) \o CleaverSuffix

\* the context of the slides template
SlideshowData(m, sl, rl) ==
  [slides |-> sl, controls |-> PutControls(m), navigation |-> Get(rl, "navigation")]

\* externalStyle read from the map of the bundled resources
LayoutDataBundledAsExternal(m, sl, tl, rl, el) ==
  [slideshow |-> [template |-> Get(tl, "slides"), data |-> SlideshowData(m, sl, rl)],
   title |-> Title(m),
   encoding |-> Encoding(m),
   style |-> Get(rl, "style"),
   externalStyle |-> Get(rl, "style")]

\* the context of the layout template; slideshow is the rendered slides
\* template, kept as the template and its context
LayoutData(m, sl, tl, rl, el) ==
  [slideshow |-> [template |-> Get(tl, "slides"), data |-> SlideshowData(m, sl, rl)],
   title |-> Title(m),
   encoding |-> Encoding(m),
   style |-> Get(rl, "style"),
   externalStyle |-> Get(el, "style")]

\* the arguments of helper.save
SaveCall(m, f, sl, tl, rl, el) ==
  [location |-> OutputLocation(m, f),
   template |-> Get(tl, "layout"),
   data |-> LayoutData(m, sl, tl, rl, el)]

(***************************************************************************)
(* The slides of _parseDocument.                                           *)
(***************************************************************************)
\* md(slices[i]): the rendering of content section i - 1
ContentSlide(slices, i) ==
  [kind |-> "content", section |-> i - 1, template |-> Undefined,
   author |-> Undefined, titles |-> <<>>]

\* _renderAuthorSlide(authorData)
AuthorSlide(tl, authorData) ==
  [kind |-> "author", section |-> 0, template |-> Get(tl, "author"),
   author |-> authorData, titles |-> <<>>]

\* _renderAgendaSlide(slices)
AgendaSlide(tl, slices) ==
  [kind |-> "agenda", section |-> 0, template |-> Get(tl, "agenda"),
   author |-> Undefined, titles |-> AgendaTitles(slices)]

\* the for loop started at i = 0: section 0 is pushed as a slide too
ContentSlidesFromZero(slices) ==
  [i \in 1..Len(slices) |-> ContentSlide(slices, i)]

\* the for loop of _parseDocument: one push for each of slices[1..]
ContentSlides(slices) ==
  [i \in 1..(Len(slices) - 1) |-> ContentSlide(slices, i + 1)]

\* splice(start, 1, x): the element at start is removed for the new one
SpliceReplacing(s, start, x) ==
  LET at == IF start > Len(s) THEN Len(s) ELSE start
  IN  Sub(s, 1, at) \o <<x>> \o Sub(s, at + 2, Len(s))

\* Array.prototype.splice(start, 0, x): a start beyond the end is the end
Splice(s, start, x) ==
  LET at == IF start > Len(s) THEN Len(s) ELSE start
  IN  Sub(s, 1, at) \o <<x>> \o Sub(s, at + 1, Len(s))

\* this.slides after the author slide is pushed, if there is to be one
WithAuthor(sl, m, tl) ==
  IF Truthy(Prop(m, "author"))
  THEN Append(sl, AuthorSlide(tl, Prop(m, "author")))
  ELSE sl

\* this.slides after the agenda slide is spliced in, if there is to be one
WithAgenda(sl, m, tl, slices) ==
  IF Truthy(Prop(m, "agenda")) THEN Splice(sl, 1, AgendaSlide(tl, slices)) ELSE sl

(***************************************************************************)
(* The state after new Cleaver(file).                                      *)
(***************************************************************************)
Constructed ==
  /\ file = TalkMd
  /\ rawSlices = <<>>
  /\ metadata = MetaUnset
  /\ templates = {"layout"}
  /\ tplLoaded = NoLoaded
  /\ resLoaded = NoLoaded
  /\ extLoaded = NoLoaded
  /\ loads = [id \in LoadIds |-> "none"]
  /\ slides = <<>>
  /\ pcParse = "new"
  /\ pcRun = "new"
  /\ output = <<>>
  /\ failure = "none"
  /\ reported = "none"

Init ==
  /\ document \in DocPool
  /\ Constructed

(***************************************************************************)
(* run: both batches are started, and the chain waits for the two.         *)
(***************************************************************************)
\* helper.load(map): the map's .loaded is created and a load is issued a key
Issue(ls, ids) == [id \in LoadIds |-> IF id \in ids THEN "pending" ELSE ls[id]]

Run ==
  /\ pcRun = "new"
  /\ loads' = Issue(loads, {DocumentLoad} \cup {ResourceLoad(k) : k \in ResourceKeys})
  /\ extLoaded' = EmptyLoaded
  /\ resLoaded' = EmptyLoaded
  /\ pcParse' = "loadingDocument"
  /\ pcRun' = "joining"
  /\ UNCHANGED <<file, document, rawSlices, metadata, templates, tplLoaded,
                 slides, output, failure, reported>>

(***************************************************************************)
(* The loads of helper.load complete: each fills the slot of its key.      *)
(***************************************************************************)
DocumentLoaded ==
  /\ loads[DocumentLoad] = "pending"
  /\ loads' = [loads EXCEPT ![DocumentLoad] = "ok"]
  /\ extLoaded' = Put(extLoaded, "document", "text of the document")
  /\ pcParse' = IF pcParse = "loadingDocument" THEN "parse" ELSE pcParse
  /\ UNCHANGED <<file, document, rawSlices, metadata, templates, tplLoaded,
                 resLoaded, slides, pcRun, output, failure, reported>>

ResourceLoaded(k) ==
  /\ loads[ResourceLoad(k)] = "pending"
  /\ loads' = [loads EXCEPT ![ResourceLoad(k)] = "ok"]
  /\ resLoaded' = Put(resLoaded, k, ResourceFile(k))
  /\ UNCHANGED <<file, document, rawSlices, metadata, templates, tplLoaded,
                 extLoaded, slides, pcParse, pcRun, output, failure, reported>>

TemplateLoaded(k) ==
  /\ loads[TemplateLoad(k)] = "pending"
  /\ loads' = [loads EXCEPT ![TemplateLoad(k)] = "ok"]
  /\ tplLoaded' = Put(tplLoaded, k, TemplateFile(k))
  /\ UNCHANGED <<file, document, rawSlices, metadata, templates, resLoaded,
                 extLoaded, slides, pcParse, pcRun, output, failure, reported>>

\* a load is rejected: the Q.all it belongs to rejects at once, and with it
\* the chain; the other loads stay in flight
LoadFails(id) ==
  /\ loads[id] = "pending"
  /\ loads' = [loads EXCEPT ![id] = "failed"]
  /\ pcParse' = IF id \in ParseLoads /\ pcParse \notin {"new", "resolved"}
                THEN "rejected" ELSE pcParse
  /\ failure' = FirstFailure(failure, "load error")
  /\ UNCHANGED <<file, document, rawSlices, metadata, templates, tplLoaded,
                 resLoaded, extLoaded, slides, pcRun, output, reported>>

(***************************************************************************)
(* _parseDocument, first callback: slice the document, parse section 0.    *)
(***************************************************************************)
\* _slice on each document of the pipeline, computed once
SlicesOfPool == [d \in DocPool |-> _slice(d)]

SliceAndParse ==
  /\ pcParse = "parse"
  /\ LET slices == SlicesOfPool[document]
     IN  /\ rawSlices' = slices
         /\ \/ /\ metadata' \in YamlValues(slices[1])
               /\ pcParse' = "loadTemplates"
               /\ UNCHANGED failure
            \/ \* yaml.safeLoad throws
               /\ slices[1] # <<>>
               /\ pcParse' = "rejected"
               /\ failure' = FirstFailure(failure, "metadata parse error")
               /\ UNCHANGED metadata
  /\ UNCHANGED <<file, document, templates, tplLoaded, resLoaded, extLoaded,
                 loads, slides, pcRun, output, reported>>

(***************************************************************************)
(* _loadTemplates.                                                         *)
(***************************************************************************)
\* the default slides template named whether or not there is an override
TemplatesForWithDefault(ts, m) ==
  ts \cup (IF Truthy(Prop(m, "agenda")) THEN {"agenda"} ELSE {})
     \cup (IF Truthy(Prop(m, "author")) THEN {"author"} ELSE {})
     \cup {"slides"}

\* this.templates after the assignments of _loadTemplates
TemplatesFor(ts, m) ==
  ts \cup (IF Truthy(Prop(m, "agenda")) THEN {"agenda"} ELSE {})
     \cup (IF Truthy(Prop(m, "author")) THEN {"author"} ELSE {})
     \cup (IF Truthy(Prop(m, "template")) THEN {} ELSE {"slides"})

\* the loads _loadTemplates issues: the override, and one a key of the map
TemplateLoadsFor(ts, m) ==
  (IF Truthy(Prop(m, "template")) THEN {OverrideLoad} ELSE {})
    \cup {TemplateLoad(k) : k \in TemplatesFor(ts, m)}

LoadTemplates ==
  /\ pcParse = "loadTemplates"
  /\ IF PropertyReadThrows(metadata)
     THEN /\ pcParse' = "rejected"
          /\ failure' = FirstFailure(failure, "TypeError")
          /\ UNCHANGED <<templates, tplLoaded, loads>>
     ELSE /\ templates' = TemplatesFor(templates, metadata)
          /\ loads' = Issue(loads, TemplateLoadsFor(templates, metadata))
          /\ tplLoaded' = EmptyLoaded
          /\ pcParse' = "awaitTemplates"
          /\ UNCHANGED failure
  /\ UNCHANGED <<file, document, rawSlices, metadata, resLoaded, extLoaded,
                 slides, pcRun, output, reported>>

\* the callback of the override's load: self.templates.loaded.slides = data
OverrideLoaded ==
  /\ loads[OverrideLoad] = "pending"
  /\ IF tplLoaded.exists
     THEN /\ loads' = [loads EXCEPT ![OverrideLoad] = "ok"]
          /\ tplLoaded' = Put(tplLoaded, "slides", Prop(metadata, "template"))
          /\ UNCHANGED <<pcParse, failure>>
     ELSE /\ loads' = [loads EXCEPT ![OverrideLoad] = "failed"]
          /\ pcParse' = "rejected"
          /\ failure' = FirstFailure(failure, "TypeError")
          /\ UNCHANGED tplLoaded
  /\ UNCHANGED <<file, document, rawSlices, metadata, templates, resLoaded,
                 extLoaded, slides, pcRun, output, reported>>

(***************************************************************************)
(* _parseDocument, last callback: the slides, then the external style.     *)
(***************************************************************************)
\* the promise of _loadTemplates taken as resolved once the loads are issued
TemplatesIssued == tplLoaded.exists

\* Q.all(promises) of _loadTemplates has resolved: each load it issued has
TemplatesReady ==
  \A id \in {OverrideLoad} \cup {TemplateLoad(k) : k \in TemplateKeys} :
    loads[id] \in {"none", "ok"}

RenderSections ==
  /\ pcParse = "awaitTemplates"
  /\ TemplatesReady
  /\ LET base   == slides \o ContentSlides(rawSlices)
         author == WithAuthor(base, metadata, tplLoaded)
         agenda == WithAgenda(author, metadata, tplLoaded, rawSlices)
     IN  \/ /\ slides' = agenda
            /\ IF Truthy(Prop(metadata, "style"))
               THEN /\ loads' = Issue(loads, {StyleLoad})
                    /\ pcParse' = "awaitStyle"
               ELSE /\ pcParse' = "resolved"
                    /\ UNCHANGED loads
            /\ UNCHANGED failure
         \/ \* mustache.render of the author template throws
            /\ Truthy(Prop(metadata, "author"))
            /\ slides' = base
            /\ pcParse' = "rejected"
            /\ failure' = FirstFailure(failure, "render error")
            /\ UNCHANGED loads
         \/ \* mustache.render of the agenda template throws
            /\ Truthy(Prop(metadata, "agenda"))
            /\ slides' = author
            /\ pcParse' = "rejected"
            /\ failure' = FirstFailure(failure, "render error")
            /\ UNCHANGED loads
  /\ UNCHANGED <<file, document, rawSlices, metadata, templates, tplLoaded,
                 resLoaded, extLoaded, pcRun, output, reported>>

\* the external style written over the bundled one, in resources.loaded.style
StyleLoadedIntoResources ==
  /\ loads[StyleLoad] = "pending"
  /\ loads' = [loads EXCEPT ![StyleLoad] = "ok"]
  /\ resLoaded' = Put(resLoaded, "style", Prop(metadata, "style"))
  /\ pcParse' = IF pcParse = "awaitStyle" THEN "resolved" ELSE pcParse
  /\ UNCHANGED <<file, document, rawSlices, metadata, templates, tplLoaded,
                 extLoaded, slides, pcRun, output, failure, reported>>

\* the callback of the style's load: self.external.loaded.style = data
StyleLoaded ==
  /\ loads[StyleLoad] = "pending"
  /\ loads' = [loads EXCEPT ![StyleLoad] = "ok"]
  /\ extLoaded' = Put(extLoaded, "style", Prop(metadata, "style"))
  /\ pcParse' = IF pcParse = "awaitStyle" THEN "resolved" ELSE pcParse
  /\ UNCHANGED <<file, document, rawSlices, metadata, templates, tplLoaded,
                 resLoaded, slides, pcRun, output, failure, reported>>

(***************************************************************************)
(* run, after the join: _renderSlideshow, or the error is reported.        *)
(***************************************************************************)
\* the join taken as soon as both batches have settled, rejected or not
BothBatchesSettled ==
  /\ pcParse \in {"resolved", "rejected"}
  /\ \A k \in ResourceKeys : loads[ResourceLoad(k)] \in {"ok", "failed"}

\* the join waiting for _parseDocument alone
ParseBatchDone == pcParse = "resolved"

\* Q.all([this._parseDocument(), this._loadAssets()]) has resolved
BothBatchesDone ==
  /\ pcParse = "resolved"
  /\ \A k \in ResourceKeys : loads[ResourceLoad(k)] = "ok"

RenderSlideshow ==
  /\ pcRun = "joining"
  /\ BothBatchesDone
  /\ \/ /\ output' = Append(output, SaveCall(metadata, file, slides, tplLoaded,
                                             resLoaded, extLoaded))
        /\ pcRun' = "saving"
        /\ UNCHANGED failure
     \/ \* mustache.render of the slides or of the layout template throws
        /\ pcRun' = "rejected"
        /\ failure' = FirstFailure(failure, "render error")
        /\ UNCHANGED output
  /\ UNCHANGED <<file, document, rawSlices, metadata, templates, tplLoaded,
                 resLoaded, extLoaded, loads, slides, pcParse, reported>>

\* the promise of helper.save settles
SaveDone ==
  /\ pcRun = "saving"
  /\ pcRun' = "done"
  /\ UNCHANGED <<file, document, rawSlices, metadata, templates, tplLoaded,
                 resLoaded, extLoaded, loads, slides, pcParse, output, failure,
                 reported>>

SaveFails ==
  /\ pcRun = "saving"
  /\ pcRun' = "rejected"
  /\ failure' = FirstFailure(failure, "save error")
  /\ UNCHANGED <<file, document, rawSlices, metadata, templates, tplLoaded,
                 resLoaded, extLoaded, loads, slides, pcParse, output, reported>>

\* a .fail that swallows the rejection: nothing is thrown out of the chain
ReportErrorSwallowed ==
  /\ pcRun \in {"joining", "rejected"}
  /\ failure # "none"
  /\ pcRun' = "failed"
  /\ UNCHANGED <<file, document, rawSlices, metadata, templates, tplLoaded,
                 resLoaded, extLoaded, loads, slides, pcParse, output, failure,
                 reported>>

\* .fail rethrows the rejection and .done throws it out of the chain
ReportError ==
  /\ pcRun \in {"joining", "rejected"}
  /\ failure # "none"
  /\ pcRun' = "failed"
  /\ reported' = failure
  /\ UNCHANGED <<file, document, rawSlices, metadata, templates, tplLoaded,
                 resLoaded, extLoaded, loads, slides, pcParse, output, failure>>

Next ==
  \/ Run
  \/ DocumentLoaded
  \/ \E k \in ResourceKeys : ResourceLoaded(k)
  \/ \E k \in TemplateKeys : TemplateLoaded(k)
  \/ \E id \in LoadIds : LoadFails(id)
  \/ SliceAndParse
  \/ LoadTemplates
  \/ OverrideLoaded
  \/ RenderSections
  \/ StyleLoaded
  \/ RenderSlideshow
  \/ SaveDone
  \/ SaveFails
  \/ ReportError

Spec == Init /\ [][Next]_vars

(***************************************************************************)
(* The slicer and the agenda scan on their own: _slice is applied to every *)
(* short text over the characters that matter to it, and the scan of       *)
(* _renderAgendaSlide to the slices of every short sequence of sections.   *)
(***************************************************************************)
SliceAlphabet == {"a", DASH, LF, CR, SP}

RECURSIVE TextsOfLength(_)
TextsOfLength(n) ==
  IF n = 0 THEN {<<>>}
  ELSE {<<c>> \o t : c \in SliceAlphabet, t \in TextsOfLength(n - 1)}

SliceDocs == UNION {TextsOfLength(n) : n \in 0..MaxDocLen}

Level4A == <<HASH, HASH, HASH, HASH, SP, "A">>
Level2A == <<HASH, HASH, SP, "A">>
HeadingAThenText == <<HASH, HASH, HASH, SP, "A", LF, "p">>

SectionPool == {HeadingA, HeadingB, Paragraph, Level4A, Level2A, HeadingAThenText}

RECURSIVE SectionSeqs(_)
SectionSeqs(n) ==
  IF n = 0 THEN {<<>>}
  ELSE {<<c>> \o t : c \in SectionPool, t \in SectionSeqs(n - 1)}

AgendaDocs ==
  {JoinSections(<<MetadataText>> \o ss) :
     ss \in UNION {SectionSeqs(n) : n \in 0..MaxSections}}

\* sections whose first or last line is -- but for the blanks around it
DashThenText == <<SP, DASH, DASH, LF, "a">>
TextThenDash == <<"a", LF, DASH, DASH, SP>>
DashAlone == <<DASH, DASH, SP>>

EdgePool == {<<"a">>, DashThenText, TextThenDash, DashAlone}

EdgeDocs == {JoinSections(<<x, y>>) : x \in EdgePool, y \in EdgePool}

InitText ==
  /\ document \in SliceDocs \cup AgendaDocs \cup EdgeDocs
  /\ Constructed

\* slices = self._slice(document)
ApplySlice ==
  /\ rawSlices = <<>>
  /\ rawSlices' = _slice(document)
  /\ UNCHANGED <<file, document, metadata, templates, tplLoaded, resLoaded,
                 extLoaded, loads, slides, pcParse, pcRun, output, failure,
                 reported>>

\* self._renderAgendaSlide(slices)
ApplyAgenda ==
  /\ rawSlices # <<>>
  /\ slides = <<>>
  /\ slides' = <<AgendaSlide(tplLoaded, rawSlices)>>
  /\ UNCHANGED <<file, document, rawSlices, metadata, templates, tplLoaded,
                 resLoaded, extLoaded, loads, pcParse, pcRun, output, failure,
                 reported>>

NextText == ApplySlice \/ ApplyAgenda

SpecText == InitText /\ [][NextText]_vars

(***************************************************************************)
(* Composition on its own: _renderSlideshow is applied, at the join of     *)
(* run, to every combination of the metadata keys it reads.                *)
(***************************************************************************)
InitCompose ==
  /\ file \in FilePool
  /\ document \in DocPool \ {<<>>}
  /\ rawSlices = _slice(document)
  /\ metadata \in ComposeMappings
  /\ templates = {"layout", "slides"}
  /\ tplLoaded = [exists |-> TRUE,
                  slots |-> {<<k, TemplateFile(k)>> : k \in {"layout", "slides"}}]
  /\ resLoaded = [exists |-> TRUE,
                  slots |-> {<<k, ResourceFile(k)>> : k \in ResourceKeys}]
  /\ extLoaded = [exists |-> TRUE, slots |-> {<<"document", "text of the document">>}]
  /\ loads = [id \in LoadIds |->
                IF id \in {DocumentLoad, TemplateLoad("layout"), TemplateLoad("slides")}
                            \cup {ResourceLoad(k) : k \in ResourceKeys}
                THEN "ok" ELSE "none"]
  /\ slides = ContentSlides(rawSlices)
  /\ pcParse = "resolved"
  /\ pcRun = "joining"
  /\ output = <<>>
  /\ failure = "none"
  /\ reported = "none"

NextCompose == RenderSlideshow \/ SaveDone \/ SaveFails \/ ReportError

SpecCompose == InitCompose /\ [][NextCompose]_vars

(***************************************************************************)
(* The run under the scheduling of the event loop: a callback that is due  *)
(* is run, and a load that was issued settles.                             *)
(***************************************************************************)
LiveDocs == {<<>>, DocumentOf(MaxContent)}

InitLive ==
  /\ document \in LiveDocs
  /\ Constructed

LiveSpec == InitLive /\ [][Next]_vars /\ WF_vars(Next)

(***************************************************************************)
(* Properties.                                                             *)
(***************************************************************************)
\* the last callback of _parseDocument has built this.slides
SectionsRendered == pcParse \in {"awaitStyle", "resolved"}

WantsAuthor == Truthy(Prop(metadata, "author"))
WantsAgenda == Truthy(Prop(metadata, "agenda"))
WantsTemplate == Truthy(Prop(metadata, "template"))
WantsStyle == Truthy(Prop(metadata, "style"))

\* the positions of this.slides that hold a slide of the kind (index + 1)
PositionsOf(kind) == {i \in 1..Len(slides) : slides[i].kind = kind}

\* C1: once the sections are rendered, whatever the number of content
\* sections: if metadata.author is truthy the author slide is the last slide,
\* and if metadata.agenda is truthy the agenda slide is at index 1 (the second
\* position) and not after the author slide.
C1_AuthorLastAgendaSecond ==
  SectionsRendered =>
    /\ WantsAuthor => PositionsOf("author") = {Len(slides)} /\ slides # <<>>
    /\ WantsAgenda =>
         /\ PositionsOf("agenda") = {2}
         /\ \A a \in PositionsOf("author") : 2 < a

\* the controls value in the context of the slides template of save call i
ControlsOf(i) == output[i].data.slideshow.data.controls

\* C2: the controls value handed to the slides template is true when
\* metadata.controls is absent or true, false when it is false, and false
\* for no other value of the key (null, 0, the empty string).
C2_ControlsFalseOnlyWhenFalse ==
  \A i \in 1..Len(output) :
    LET c == Prop(metadata, "controls")
    IN  /\ c \in {Undefined, JsTrue} => ControlsOf(i) = JsTrue
        /\ c = JsFalse => ControlsOf(i) = JsFalse
        /\ ControlsOf(i) = JsFalse => c = JsFalse

\* a stage of the run has failed: a load, the parse of the metadata, a
\* property read, or a render
StageFailed ==
  \/ \E id \in LoadIds : loads[id] = "failed"
  \/ pcParse = "rejected"
  \/ failure \in {"load error", "metadata parse error", "TypeError", "render error"}

\* C3: in a run in which a stage has failed, helper.save is not invoked,
\* whatever the other loads in flight do afterwards.
C3_NoSaveAfterFailure == StageFailed => output = <<>>

C3_Witness ==
  /\ loads[TemplateLoad("layout")] = "failed"
  /\ loads[OverrideLoad] = "pending"
  /\ loads[ResourceLoad("navigation")] = "pending"
  /\ reported # "none"
  /\ output = <<>>

\* the layout is rendered from everything the metadata asks for
FullyRendered(call) ==
  /\ call.template = "layout.mustache"
  /\ call.data.slideshow.template =
       (IF WantsTemplate THEN Prop(metadata, "template") ELSE "default.mustache")
  /\ call.data.slideshow.data.navigation = "navigation.js"
  /\ call.data.style = "default.css"
  /\ call.data.externalStyle = (IF WantsStyle THEN Prop(metadata, "style") ELSE Undefined)
  /\ LET sl == call.data.slideshow.data.slides
     IN  /\ {sl[i].section : i \in 1..Len(sl)} \ {0} = 1..(Len(rawSlices) - 1)
         /\ \A i \in 1..Len(sl) : sl[i].kind # "content" => sl[i].template # Undefined
         /\ (\E i \in 1..Len(sl) : sl[i].kind = "author") <=> WantsAuthor
         /\ (\E i \in 1..Len(sl) : sl[i].kind = "agenda") <=> WantsAgenda

SavedOnce == Len(output) = 1 /\ FullyRendered(output[1])
NothingSavedAndReported == output = <<>> /\ reported # "none"

\* C4: every run ends, and stays, in one of two outcomes: helper.save was
\* invoked exactly once, with the fully rendered layout, or it was never
\* invoked and an error was reported; save is never invoked twice.
C4_OneOutputOrNoneAndError ==
  /\ <>[](SavedOnce \/ NothingSavedAndReported)
  /\ [](Len(output) <= 1)

C4_Witness == pcRun = "done" /\ SavedOnce /\ WantsAgenda /\ WantsStyle

\* the lines of a text: the text between line feeds
RECURSIVE Lines(_)
Lines(s) ==
  LET feeds == {i \in 1..Len(s) : s[i] = LF}
  IN  IF feeds = {} THEN <<s>>
      ELSE <<Sub(s, 1, Min(feeds) - 1)>> \o Lines(Sub(s, Min(feeds) + 1, Len(s)))

\* a line that consists solely of --, with an optional carriage return
IsDelimiterLine(l) == l = <<DASH, DASH>> \/ l = <<DASH, DASH, CR>>

RECURSIVE JoinLines(_)
JoinLines(ls) ==
  IF ls = <<>> THEN <<>>
  ELSE IF Len(ls) = 1 THEN ls[1]
  ELSE ls[1] \o <<LF>> \o JoinLines(Tail(ls))

\* the lines between the delimiter lines, group by group
RECURSIVE GroupLines(_, _)
GroupLines(ls, group) ==
  IF ls = <<>> THEN <<group>>
  ELSE IF IsDelimiterLine(Head(ls)) THEN <<group>> \o GroupLines(Tail(ls), <<>>)
  ELSE GroupLines(Tail(ls), Append(group, Head(ls)))

\* the trimmed text between the delimiter lines, in document order
SectionsBetweenDelimiterLines(doc) ==
  LET groups == GroupLines(Lines(doc), <<>>)
  IN  [i \in 1..Len(groups) |-> Trim(JoinLines(groups[i]))]

DelimiterLineCount(doc) ==
  Cardinality({i \in 1..Len(Lines(doc)) : IsDelimiterLine(Lines(doc)[i])})

\* C5: _slice returns one section more than the document has lines that
\* consist solely of --, adjacent, first and last such lines included, and
\* each section is the trimmed text between them, in document order.
C5_SplitsAtEveryDelimiterLine ==
  rawSlices # <<>> =>
    /\ Len(rawSlices) = 1 + DelimiterLineCount(document)
    /\ rawSlices = SectionsBetweenDelimiterLines(document)

\* C6: a document with no delimiter gives one section, and the run on it
\* raises no error in template resolution, section rendering or composition
\* and has an empty slide sequence, whatever section 0 parses to.
C6_NoDelimiterRunsEmpty ==
  (rawSlices # <<>> /\ DelimiterLineCount(document) = 0) =>
    /\ Len(rawSlices) = 1
    /\ failure \notin {"TypeError"}
    /\ slides = <<>>

\* section 0 parsed to a value that has none of agenda, author, style, template
NoOptionalKeys ==
  /\ metadata.kind \in {"mapping", "scalar"}
  /\ ~WantsAgenda /\ ~WantsAuthor /\ ~WantsStyle /\ ~WantsTemplate

\* C7: with none of agenda, author, style, template in the metadata of a
\* document of N sections, no agenda or author template, no override and no
\* external style is loaded, the slides are the N-1 content slides, and the
\* layout gets title "Untitled" and encoding "utf-8" when the keys are absent.
C7_PlainDocument ==
  NoOptionalKeys =>
    /\ \A id \in {TemplateLoad("agenda"), TemplateLoad("author"), OverrideLoad, StyleLoad} :
         loads[id] = "none"
    /\ SectionsRendered =>
         /\ Len(slides) = Len(rawSlices) - 1
         /\ \A i \in 1..Len(slides) : slides[i].kind = "content" /\ slides[i].section = i
    /\ \A i \in 1..Len(output) :
         /\ output[i].data.slideshow.data.slides = slides
         /\ Len(slides) = Len(rawSlices) - 1
         /\ Prop(metadata, "title") = Undefined => output[i].data.title = "Untitled"
         /\ Prop(metadata, "encoding") = Undefined => output[i].data.encoding = "utf-8"
         /\ output[i].data.externalStyle = Undefined

C7_Witness ==
  /\ NoOptionalKeys
  /\ Len(rawSlices) = 3
  /\ Len(output) = 1
  /\ Len(output[1].data.slideshow.data.slides) = 2
  /\ Prop(metadata, "title") = Undefined
  /\ Prop(metadata, "encoding") = "latin1"
  /\ output[1].data.title = "Untitled"

\* the first line of a section: its characters up to the first line break
RECURSIVE LineOne(_)
LineOne(s) ==
  IF s = <<>> \/ Head(s) \in {LF, CR} THEN <<>>
  ELSE <<Head(s)>> \o LineOne(Tail(s))

\* line is h times #, h >= 3, then w whitespace characters, w >= 1, then text
IsHeadingSplit(line, h, w) ==
  /\ h >= 3 /\ w >= 1 /\ h + w < Len(line)
  /\ \A i \in 1..h : line[i] = HASH
  /\ \A i \in (h + 1)..(h + w) : IsSpace(line[i])

\* the heading text of a line that is a heading of level 3 or more: what is
\* left after the most # and then the most whitespace; NoMatch for other lines
HeadingText(line) ==
  LET splits == {hw \in (1..Len(line)) \X (1..Len(line)) : IsHeadingSplit(line, hw[1], hw[2])}
  IN  IF splits = {} THEN NoMatch
      ELSE LET h == Max({hw[1] : hw \in splits})
               w == Max({hw[2] : hw \in {x \in splits : x[1] = h}})
           IN  Sub(line, h + w + 1, Len(line))

\* the heading text of content section i, or NoMatch
HeadingOf(i) == HeadingText(LineOne(rawSlices[i + 1]))

ContentSections == 1..(Len(rawSlices) - 1)

IsTitle(t) == t # NoMatch

\* the heading texts of the content sections that have one, in order
CapturedTitles == SelectSeq([i \in ContentSections |-> HeadingOf(i)], IsTitle)

\* c without each element that equals the one right before it
RECURSIVE DropRepeats(_)
DropRepeats(c) ==
  IF Len(c) <= 1 THEN c
  ELSE LET front == DropRepeats(Sub(c, 1, Len(c) - 1))
       IN  IF c[Len(c)] = c[Len(c) - 1] THEN front ELSE Append(front, c[Len(c)])

AgendaScanned == slides # <<>> /\ slides[1].kind = "agenda"

\* C8: the titles of the agenda are the heading texts of the content
\* sections (never section 0) whose first line is a heading of level 3 or
\* more, in order, without each title that equals the one captured right
\* before it.
C8_TitlesAreCapturedHeadings ==
  AgendaScanned => slides[1].titles = DropRepeats(CapturedTitles)

C8_Witness ==
  /\ AgendaScanned
  /\ rawSlices = <<MetadataText, HeadingA, HeadingA, HeadingB, Paragraph>>
  /\ slides[1].titles = << <<"A">>, <<"B">> >>

Occurrences(seq, t) == Cardinality({i \in 1..Len(seq) : seq[i] = t})

\* C9 as stated: two content sections with the same heading that are
\* separated by a content section with another first line, heading or not,
\* give two entries of the heading in the titles.
C9_AnySeparatorGivesTwoEntries ==
  AgendaScanned =>
    \A i, j \in ContentSections :
      (/\ i < j
       /\ IsTitle(HeadingOf(i))
       /\ HeadingOf(i) = HeadingOf(j)
       /\ \E k \in ContentSections : i < k /\ k < j /\ HeadingOf(k) # HeadingOf(i))
      => Occurrences(slides[1].titles, HeadingOf(i)) >= 2

\* C9 as amended: two content sections with the same heading that are
\* separated by a content section whose first line is a heading of level 3
\* or more with another text give two entries of the heading in the titles.
C9_HeadingSeparatorGivesTwoEntries ==
  AgendaScanned =>
    \A i, j \in ContentSections :
      (/\ i < j
       /\ IsTitle(HeadingOf(i))
       /\ HeadingOf(i) = HeadingOf(j)
       /\ \E k \in ContentSections :
            i < k /\ k < j /\ IsTitle(HeadingOf(k)) /\ HeadingOf(k) # HeadingOf(i))
      => Occurrences(slides[1].titles, HeadingOf(i)) >= 2

C9_Witness ==
  /\ AgendaScanned
  /\ rawSlices = <<MetadataText, HeadingA, HeadingB, HeadingA>>
  /\ slides[1].titles = << <<"A">>, <<"B">>, <<"A">> >>

\* the loads _loadTemplates has issued
IssuedTemplateLoads ==
  {id \in {OverrideLoad} \cup {TemplateLoad(k) : k \in TemplateKeys} : loads[id] # "none"}

\* C10: the template loads _loadTemplates issues are: layout always; the
\* external metadata.template when it is set and the default slides template
\* otherwise, never both; agenda iff metadata.agenda is truthy; author iff
\* metadata.author is truthy.
C10_TemplateLoadsIssued ==
  IF tplLoaded.exists
  THEN /\ TemplateLoad("layout") \in IssuedTemplateLoads
       /\ OverrideLoad \in IssuedTemplateLoads <=> WantsTemplate
       /\ TemplateLoad("slides") \in IssuedTemplateLoads <=> ~WantsTemplate
       /\ TemplateLoad("agenda") \in IssuedTemplateLoads <=> WantsAgenda
       /\ TemplateLoad("author") \in IssuedTemplateLoads <=> WantsAuthor
  ELSE IssuedTemplateLoads = {}

C10_Witness ==
  /\ tplLoaded.exists
  /\ WantsTemplate /\ WantsAgenda /\ ~WantsAuthor
  /\ IssuedTemplateLoads = {OverrideLoad, TemplateLoad("layout"), TemplateLoad("agenda")}

\* C11: the load of the external stylesheet is issued if and only if
\* metadata.style is set (never when it is not, and by the time the sections
\* are rendered when it is); the layout template receives as externalStyle
\* the loaded content when it was loaded and nothing otherwise; the bundled
\* style and navigation resources are loaded in every run, whatever the
\* metadata.
C11_ExternalStyleIffSet ==
  /\ loads[StyleLoad] # "none" => WantsStyle
  /\ SectionsRendered => (loads[StyleLoad] # "none" <=> WantsStyle)
  /\ Has(extLoaded, "style") => loads[StyleLoad] = "ok"
  /\ pcRun # "new" => \A k \in ResourceKeys : loads[ResourceLoad(k)] # "none"
  /\ \A i \in 1..Len(output) :
       /\ Has(extLoaded, "style") <=> WantsStyle
       /\ output[i].data.externalStyle =
            (IF Has(extLoaded, "style") THEN Prop(metadata, "style") ELSE Undefined)
       /\ output[i].data.style = ResourceFile("style")
       /\ output[i].data.slideshow.data.navigation = ResourceFile("navigation")

C11_Witness ==
  /\ Len(output) = 1
  /\ WantsStyle
  /\ output[1].data.externalStyle = "my.css"
  /\ output[1].data.style = "default.css"

\* the last component of a path, and a name without its extension (what
\* follows its last dot, a leading dot apart)
LastComponent(f) ==
  LET slashes == {i \in 1..Len(f) : f[i] = "/"}
  IN  IF slashes = {} THEN f ELSE Sub(f, Max(slashes) + 1, Len(f))

WithoutExtension(name) ==
  LET dots == {i \in 2..Len(name) : name[i] = "."}
  IN  IF dots = {} THEN name ELSE Sub(name, 1, Max(dots) - 1)

\* C12: the location passed to helper.save is metadata.output when it is
\* set, and otherwise the name of the input file with its extension,
\* whatever it is, replaced by -cleaver.html; talk.md gives talk-cleaver.html.
C12_OutputLocation ==
  \A i \in 1..Len(output) :
    /\ Prop(metadata, "output") # Undefined =>
         output[i].location = <<Prop(metadata, "output")>>
    /\ Prop(metadata, "output") = Undefined =>
         output[i].location = WithoutExtension(LastComponent(file)) \o CleaverSuffix
    /\ (Prop(metadata, "output") = Undefined /\ file = TalkMd) =>
         output[i].location = <<"t", "a", "l", "k">> \o CleaverSuffix

\* the same for the input files whose extension is .md
C12_OutputLocationOfMd ==
  EndsWith(file, DotMd) => C12_OutputLocation

\* C13: splitting is stable: for a document with at least one delimiter,
\* the sections of _slice joined with the delimiter line and sliced again are
\* the same sequence of sections, also when a section ends or begins with a
\* line that is -- once trimmed.
C13_SliceOfJoinIsStable ==
  Len(rawSlices) >= 2 => _slice(JoinSections(rawSlices)) = rawSlices

\* the same for the sections that do not end with a line -- of their own
EndsWithDashLine(section) == EndsWith(section, <<LF, DASH, DASH>>)

C13_StableUnlessDashLineAtEnd ==
  (Len(rawSlices) >= 2 /\ \A i \in 1..Len(rawSlices) : ~EndsWithDashLine(rawSlices[i]))
    => _slice(JoinSections(rawSlices)) = rawSlices

\* the template loads the metadata requires
RequiredTemplateLoads ==
  {TemplateLoad("layout")}
    \cup (IF WantsTemplate THEN {OverrideLoad} ELSE {TemplateLoad("slides")})
    \cup (IF WantsAgenda THEN {TemplateLoad("agenda")} ELSE {})
    \cup (IF WantsAuthor THEN {TemplateLoad("author")} ELSE {})

\* the document is parsed and every load the run requires has completed
EverythingCompleted ==
  /\ loads[DocumentLoad] = "ok"
  /\ rawSlices # <<>>
  /\ metadata.kind \in {"mapping", "scalar"}
  /\ SectionsRendered
  /\ \A id \in RequiredTemplateLoads : loads[id] = "ok"
  /\ \A k \in {"layout", "slides"} : Has(tplLoaded, k)
  /\ WantsStyle => loads[StyleLoad] = "ok" /\ Has(extLoaded, "style")
  /\ \A k \in ResourceKeys : loads[ResourceLoad(k)] = "ok" /\ Has(resLoaded, k)
  /\ \A id \in LoadIds : loads[id] # "pending"

\* this step enters _renderSlideshow
CompositionStarts == pcRun = "joining" /\ pcRun' \in {"saving", "rejected"}

\* C14: in every interleaving of the load completions, _renderSlideshow
\* starts only when both batches have completed: the document is parsed, and
\* every required template load (the override included), the load of the
\* external stylesheet when metadata.style is set, and the loads of the style
\* and navigation resources have completed.
C14_CompositionAfterBothBatches == [][CompositionStarts => EverythingCompleted]_vars

C14_Witness ==
  /\ pcRun = "saving"
  /\ WantsTemplate /\ WantsStyle /\ WantsAgenda /\ WantsAuthor
  /\ EverythingCompleted

\* the loads _loadTemplates issues
AllTemplateLoads == {OverrideLoad} \cup {TemplateLoad(k) : k \in TemplateKeys}

\* this step issues a template load
TemplateLoadIssued == \E id \in AllTemplateLoads : loads[id] = "none" /\ loads'[id] # "none"

\* this step is the last callback of _parseDocument: the promise of
\* _parseDocument leaves the wait for the templates and no template load settles
SectionRenderingStarts ==
  /\ pcParse = "awaitTemplates"
  /\ pcParse' # "awaitTemplates"
  /\ \A id \in AllTemplateLoads : loads'[id] = loads[id]

\* the synthesized slides were rendered from a loaded template
SynthesizedFromLoaded ==
  \A i \in 1..Len(slides) :
    /\ slides[i].kind = "author" => slides[i].template = TemplateFile("author")
    /\ slides[i].kind = "agenda" => slides[i].template = TemplateFile("agenda")

\* C15: template loads are issued only after the metadata has been parsed;
\* the rendering of the sections (content, author slide, agenda slide) starts
\* only after every template load _loadTemplates issued has completed; so the
\* author and agenda templates are loaded whenever they are rendered.
C15_TemplatesBeforeSections ==
  /\ [][TemplateLoadIssued => metadata.kind \in {"mapping", "scalar"}]_vars
  /\ [][SectionRenderingStarts =>
          /\ \A id \in RequiredTemplateLoads : loads[id] = "ok"
          /\ \A id \in AllTemplateLoads : loads[id] \in {"none", "ok"}
          /\ WantsAuthor => Has(tplLoaded, "author")
          /\ WantsAgenda => Has(tplLoaded, "agenda")]_vars
  /\ [](SynthesizedFromLoaded)

C15_Witness ==
  /\ SectionsRendered
  /\ WantsTemplate
  /\ PositionsOf("author") # {} /\ PositionsOf("agenda") # {}
  /\ SynthesizedFromLoaded

\* the content loaded from the identifier metadata.template names
OverrideContent == Prop(metadata, "template")

\* C16: when metadata.template is set, the slides template rendered by
\* _renderSlideshow is the content loaded from that identifier, in every
\* order of completion of the override load and the loads of the bundled
\* templates: the write to templates.loaded.slides happens only once the
\* templates.loaded mapping exists, is there when the override load is ok,
\* and what it wrote is never replaced (not by the batch load either).
C16_OverrideIsRendered ==
  /\ [](WantsTemplate =>
          /\ \A i \in 1..Len(output) : output[i].data.slideshow.template = OverrideContent
          /\ loads[OverrideLoad] = "ok" => Get(tplLoaded, "slides") = OverrideContent
          /\ Has(tplLoaded, "slides") => Get(tplLoaded, "slides") = OverrideContent
          /\ loads[TemplateLoad("slides")] = "none")
  /\ [][(loads[OverrideLoad] = "pending" /\ loads'[OverrideLoad] # "pending")
          => tplLoaded.exists]_vars
  /\ [][(WantsTemplate /\ Get(tplLoaded, "slides") = OverrideContent)
          => Get(tplLoaded', "slides") = OverrideContent]_vars

C16_Witness ==
  /\ WantsTemplate
  /\ Len(output) = 1
  /\ output[1].data.slideshow.template = "my.mustache"
  /\ output[1].template = "layout.mustache"
  /\ WantsAgenda /\ WantsAuthor

\* the slots of the three .loaded mappings
MapNames == {"templates", "resources", "external"}
Slots == [templates |-> tplLoaded.slots, resources |-> resLoaded.slots,
          external |-> extLoaded.slots]
KeysIn(slots) == {p[1] : p \in slots}

\* the slot a load is to fill: the mapping and the key
Target(id) ==
  CASE id = DocumentLoad -> <<"external", "document">>
    [] id = StyleLoad -> <<"external", "style">>
    [] id = OverrideLoad -> <<"templates", "slides">>
    [] OTHER -> id

IssuedLoads == {id \in LoadIds : loads[id] # "none"}

\* the loads that complete, and the slots that get a content, in this step
CompletedInStep == {id \in LoadIds : loads[id] = "pending" /\ loads'[id] = "ok"}
WrittenInStep ==
  UNION {{<<n, p[1]>> : p \in Slots'[n] \ Slots[n]} : n \in MapNames}

\* C17: in every interleaving, each load of the run writes a slot of
\* templates.loaded, resources.loaded or external.loaded that no other load
\* of the run writes, and no slot is written more than once: a step writes
\* the one slot of the load that completes in it, the slot was empty before,
\* a written slot keeps its content, and a load completes once.  The external
\* stylesheet goes to external.loaded.style, not to resources.loaded.style.
C17_LoadsWriteDisjointSlots ==
  /\ [](\A a, b \in IssuedLoads : a # b => Target(a) # Target(b))
  /\ [][/\ Cardinality(CompletedInStep) <= 1
        /\ WrittenInStep = {Target(id) : id \in CompletedInStep}
        /\ \A w \in WrittenInStep : w[2] \notin KeysIn(Slots[w[1]])
        /\ \A n \in MapNames : Slots[n] \subseteq Slots'[n]
        /\ \A id \in LoadIds : loads[id] = "ok" => loads'[id] = "ok"]_vars
  /\ [](Has(extLoaded, "style") =>
          /\ Get(extLoaded, "style") = Prop(metadata, "style")
          /\ Get(resLoaded, "style") \in {Undefined, ResourceFile("style")})

C17_Witness ==
  /\ Get(extLoaded, "style") = "my.css"
  /\ Get(resLoaded, "style") = "default.css"
  /\ Get(tplLoaded, "slides") = "my.mustache"
  /\ IssuedLoads = LoadIds \ {TemplateLoad("slides")}
  /\ \A id \in IssuedLoads : loads[id] = "ok"

\* the content slides of a slide sequence, in its order
IsContentSlide(slide) == slide.kind = "content"
ContentSlidesOf(sl) == SelectSeq(sl, IsContentSlide)

\* the sections the content slides of a slide sequence render, in its order
SectionsShown(sl) == [i \in 1..Len(ContentSlidesOf(sl)) |-> ContentSlidesOf(sl)[i].section]

\* C18: in the final slide sequence every content section 1..N has exactly
\* one slide, the slides of the content sections are in the order of the
\* sections (also around a spliced agenda slide), the metadata section has no
\* slide, and every content slide precedes the author slide; the save call
\* gets this sequence.
C18_ContentSlidesInOrder ==
  /\ SectionsRendered =>
       /\ SectionsShown(slides) = [i \in 1..(Len(rawSlices) - 1) |-> i]
       /\ \A c \in PositionsOf("content"), a \in PositionsOf("author") : c < a
       /\ Cardinality(PositionsOf("author")) <= 1
       /\ Cardinality(PositionsOf("agenda")) <= 1
  /\ \A i \in 1..Len(output) : output[i].data.slideshow.data.slides = slides

C18_Witness ==
  /\ Len(output) = 1
  /\ Len(rawSlices) = 3
  /\ [i \in 1..Len(slides) |-> slides[i].kind] = <<"content", "agenda", "content", "author">>
  /\ SectionsShown(output[1].data.slideshow.data.slides) = <<1, 2>>

====
